---- MODULE Spec2Model ----
(***************************************************************************)
(* A model of grid_ui's DrawProcess (src/src/process.rs): a rectangle of   *)
(* rows split by a divider into a "minus" and a "plus" section, with       *)
(* insertion, clear, split_free_space, extend, shove and rendering.        *)
(*                                                                         *)
(* All coordinates are Rust usize values.  Arithmetic on them is modelled  *)
(* with its width: an overflowing + or - panics when the build has         *)
(* overflow checks (debug profile) and wraps otherwise (release profile).  *)
(* Every operation is an operator from the receiver (and arguments) to the *)
(* wrapped outcome, with a flag `ovf` telling whether some + or - in it    *)
(* overflowed; the actions turn the flag into a panic in a checked build.  *)
(***************************************************************************)
EXTENDS Integers, Sequences, FiniteSets

VARIABLES
    process,          \* the DrawProcess value (all its fields)
    overflow_checks,  \* build profile: "on" = arithmetic overflow panics, "off" = it
                      \* wraps; "unknown" until the first overflow shows which
    panicked,         \* TRUE once an operation has panicked
    last              \* record of the last call: arguments, receiver before, results

vars == <<process, overflow_checks, panicked, last>>

----------------------------------------------------------------------------
(* Bounds of the model *)

\* Tallest viewport handed to the constructor; the viewports lie in rows
\* 0..MaxHeight.
MaxHeight == 2
\* Most lines the trimming policy makes of one input.
MaxK == 2
\* Most items in one add_to_section_lines call.
MaxBatch == 2
\* Largest value of min_left / max_taken.
MaxOpt == 1
\* Latest instruction at which the modelled render driver fails.
MaxFail == 1
\* Width in bits of the modelled usize.
USIZE_BITS == 8

\* Largest coordinate (and divider) a state may hold.
MaxCoord == MaxHeight
\* Longest line list a state may hold.
MaxLines == MaxHeight

USIZE_MOD == 2 ^ USIZE_BITS

----------------------------------------------------------------------------
(* usize arithmetic *)

USub(a, b) == (a - b) % USIZE_MOD
UAdd(a, b) == (a + b) % USIZE_MOD
SubOvf(a, b) == a < b
AddOvf(a, b) == a + b >= USIZE_MOD
Min(a, b) == IF a <= b THEN a ELSE b
Max(a, b) == IF a >= b THEN a ELSE b

RECURSIVE Reverse(_)
Reverse(s) == IF s = <<>> THEN <<>> ELSE Reverse(Tail(s)) \o <<Head(s)>>

\* The half-open range a..b of Rust, as a sequence.
Range(a, b) == [i \in 1..(b - a) |-> a + i - 1]

----------------------------------------------------------------------------
(* Values *)

\* Option<T>: None is <<>>, Some(v) is <<v>>.
None == <<>>
Some(v) == <<v>>

Grid(sx, sy, ex, ey) == [start_x |-> sx, start_y |-> sy, end_x |-> ex, end_y |-> ey]

\* grid of the process's current bounds
GridOf(p) == Grid(p.start_x, p.start_y, p.end_x, p.end_y)

Beginning == [kind |-> "Beginning", v |-> 0]
End == [kind |-> "End", v |-> 0]
Halfway == [kind |-> "Halfway", v |-> 0]
Pos(v) == [kind |-> "Pos", v |-> v]

\* out::Action
Action_MoveTo(x, y) == <<"MoveTo", x, y>>
Action_Print(s) == <<"Print", s>>

\* A TrimmedText: a line of `w` characters named `id` (0: the blank line).
Line(id, w) == <<id, w>>

\* The trimming policy (TrimStrategy::trim): the input text is cut into k lines
\* of the process's width, named id, id + 2, ...
Trim(text, p) == [i \in 1..text.k |-> Line(text.id + 2 * (i - 1), p.end_x - p.start_x)]

----------------------------------------------------------------------------
(* DrawProcess *)

\* new as it would be if Halfway rounded the half height up.
new_halfway_up(val, strategy) ==
    LET h == USub(val.end_y, val.start_y)
    IN [ovf |-> \/ strategy.kind \in {"End", "Halfway"} /\ SubOvf(val.end_y, val.start_y)
                \/ SubOvf(val.end_x, val.start_x),
        p |-> [start_x |-> val.start_x,
               start_y |-> val.start_y,
               end_x |-> val.end_x,
               end_y |-> val.end_y,
               divider |-> CASE strategy.kind = "Beginning" -> 0
                             [] strategy.kind = "End" -> h
                             [] strategy.kind = "Halfway" -> (h + 1) \div 2
                             [] OTHER -> strategy.v,
               minus |-> <<>>,
               plus |-> <<>>,
               example_str |-> Line(0, USub(val.end_x, val.start_x))]]

\* DrawProcess::new.  The divider arms are evaluated lazily: only End and
\* Halfway compute end_y - start_y.
new(val, strategy) ==
    LET h == USub(val.end_y, val.start_y)
    IN [ovf |-> \/ strategy.kind \in {"End", "Halfway"} /\ SubOvf(val.end_y, val.start_y)
                \/ SubOvf(val.end_x, val.start_x),
        p |-> [start_x |-> val.start_x,
               start_y |-> val.start_y,
               end_x |-> val.end_x,
               end_y |-> val.end_y,
               divider |-> CASE strategy.kind = "Beginning" -> 0
                             [] strategy.kind = "End" -> h
                             [] strategy.kind = "Halfway" -> h \div 2
                             [] OTHER -> strategy.v,
               minus |-> <<>>,
               plus |-> <<>>,
               example_str |-> Line(0, USub(val.end_x, val.start_x))]]

width(p) == USub(p.end_x, p.start_x)
height(p) == USub(p.end_y, p.start_y)

\* add_to_section_trimmed as it would be if a full Minus side took a row from
\* the Plus side (the divider moves down) instead of refusing the line.
add_to_section_trimmed_taking(p, text, section) ==
    IF section = "Minus"
    THEN LET space == USub(p.divider, Len(p.minus))
         IN [ovf |-> SubOvf(p.divider, Len(p.minus)),
             result |-> "Ok",
             p |-> IF space = 0
                   THEN [p EXCEPT !.minus = Append(@, text), !.divider = @ + 1]
                   ELSE [p EXCEPT !.minus = Append(@, text)]]
    ELSE LET h == USub(p.end_y, p.start_y)
             r == USub(h, p.divider)
             space == USub(r, Len(p.plus))
         IN [ovf |-> \/ SubOvf(p.end_y, p.start_y)
                     \/ SubOvf(h, p.divider)
                     \/ SubOvf(r, Len(p.plus)),
             result |-> IF space = 0 THEN "NoSpace" ELSE "Ok",
             p |-> IF space = 0 THEN p ELSE [p EXCEPT !.plus = Append(@, text)]]

\* DrawProcess::add_to_section_trimmed
add_to_section_trimmed(p, text, section) ==
    IF section = "Minus"
    THEN LET space == USub(p.divider, Len(p.minus))
         IN [ovf |-> SubOvf(p.divider, Len(p.minus)),
             result |-> IF space = 0 THEN "NoSpace" ELSE "Ok",
             p |-> IF space = 0 THEN p ELSE [p EXCEPT !.minus = Append(@, text)]]
    ELSE LET h == USub(p.end_y, p.start_y)
             r == USub(h, p.divider)
             space == USub(r, Len(p.plus))
         IN [ovf |-> \/ SubOvf(p.end_y, p.start_y)
                     \/ SubOvf(h, p.divider)
                     \/ SubOvf(r, Len(p.plus)),
             result |-> IF space = 0 THEN "NoSpace" ELSE "Ok",
             p |-> IF space = 0 THEN p ELSE [p EXCEPT !.plus = Append(@, text)]]

\* The loop of add_to_section over the trimmed lines; `extras` is what is
\* handed to the policy's overflow handler (TrimStrategy::back).
RECURSIVE add_loop(_, _, _)
add_loop(p, lines, section) ==
    IF lines = <<>>
    THEN [ovf |-> FALSE, result |-> "Ok", extras |-> <<>>, p |-> p]
    ELSE LET r == add_to_section_trimmed(p, Head(lines), section)
         IN IF r.result = "NoSpace"
            THEN [ovf |-> r.ovf, result |-> "NoSpace",
                  extras |-> <<Head(lines)>> \o Tail(lines), p |-> r.p]
            ELSE LET rest == add_loop(r.p, Tail(lines), section)
                 IN [rest EXCEPT !.ovf = @ \/ r.ovf]

\* DrawProcess::add_to_section
add_to_section(p, text, section) == add_loop(p, Trim(text, p), section)

\* text.map(|x| self.add_to_section(x, strategy, section)).collect()
RECURSIVE map_add(_, _, _)
map_add(p, text, section) ==
    IF text = <<>>
    THEN [ovf |-> FALSE, res |-> <<>>, extras |-> <<>>, p |-> p]
    ELSE LET r == add_to_section(p, Head(text), section)
             rest == map_add(r.p, Tail(text), section)
         IN [ovf |-> r.ovf \/ rest.ovf,
             res |-> <<r.result>> \o rest.res,
             extras |-> <<r.extras>> \o rest.extras,
             p |-> rest.p]

\* add_to_section_lines as it would be without text.rev() on the Minus side.
add_to_section_lines_forward(p, text, section) ==
    IF section = "Minus"
    THEN LET r == map_add(p, text, section)
         IN [r EXCEPT !.res = Reverse(@), !.extras = Reverse(@)]
    ELSE map_add(p, text, section)

\* DrawProcess::add_to_section_lines
add_to_section_lines(p, text, section) ==
    IF section = "Minus"
    THEN LET r == map_add(p, Reverse(text), section)
         IN [r EXCEPT !.res = Reverse(@), !.extras = Reverse(@)]
    ELSE map_add(p, text, section)

\* clear as it would be if it reset the divider and kept the lines.
clear_keeping_lines(p, new_strategy) ==
    LET r == new(GridOf(p), new_strategy)
    IN [r EXCEPT !.p.minus = p.minus, !.p.plus = p.plus]

\* DrawProcess::clear
clear(p, new_strategy) == new(GridOf(p), new_strategy)

\* DrawProcess::split_free_space
split_free_space(p, a, min_left, max_taken) ==
    IF a = "Minus"
    THEN LET space == p.divider
             occ0 == Len(p.minus)
             space_occupied == IF min_left # None THEN Max(occ0, min_left[1]) ELSE occ0
             total0 == IF space >= space_occupied THEN space - space_occupied ELSE 0
             total_space == IF max_taken # None THEN Min(total0, max_taken[1]) ELSE total0
             sy == UAdd(p.start_y, total_space)
         IN IF total_space # 0
            THEN [ovf |-> \/ AddOvf(p.start_y, total_space)
                          \/ SubOvf(sy, total_space)
                          \/ SubOvf(p.end_y, total_space),
                  p |-> [p EXCEPT !.start_y = sy],
                  grid |-> Some(Grid(p.start_x, USub(sy, total_space),
                                     p.end_x, USub(p.end_y, total_space)))]
            ELSE [ovf |-> FALSE, p |-> p, grid |-> None]
    ELSE LET h == USub(p.end_y, p.start_y)
             space == USub(h, p.divider)
             occ0 == Len(p.plus)
             space_occupied == IF min_left # None THEN Max(occ0, min_left[1]) ELSE occ0
             total0 == IF space >= space_occupied THEN space - space_occupied ELSE 0
             total_space == IF max_taken # None THEN Min(total0, max_taken[1]) ELSE total0
             ey == USub(p.end_y, total_space)
             ovf0 == SubOvf(p.end_y, p.start_y) \/ SubOvf(h, p.divider)
         IN IF total_space # 0
            THEN [ovf |-> \/ ovf0
                          \/ SubOvf(p.end_y, total_space)
                          \/ AddOvf(ey, total_space),
                  p |-> [p EXCEPT !.end_y = ey],
                  grid |-> Some(Grid(p.start_x, ey, p.end_x, UAdd(ey, total_space)))]
            ELSE [ovf |-> ovf0, p |-> p, grid |-> None]

\* extend as it would be if the viewport below were matched but not taken in.
extend_keeps_end(p, grid) ==
    IF p.start_x = grid.start_x /\ p.end_x = grid.end_x /\ p.end_y = grid.start_y
    THEN [result |-> "Ok", back |-> None, p |-> [p EXCEPT !.end_y = grid.start_y]]
    ELSE IF p.start_x = grid.start_x /\ p.end_x = grid.end_x /\ p.start_y = grid.end_y
    THEN [result |-> "Ok", back |-> None, p |-> [p EXCEPT !.start_y = grid.start_y]]
    ELSE [result |-> "Err", back |-> Some(grid), p |-> p]

\* extend as it would be without the comparison of the x-bounds.
extend_any_width(p, grid) ==
    IF p.end_y = grid.start_y
    THEN [result |-> "Ok", back |-> None, p |-> [p EXCEPT !.end_y = grid.end_y]]
    ELSE IF p.start_y = grid.end_y
    THEN [result |-> "Ok", back |-> None, p |-> [p EXCEPT !.start_y = grid.start_y]]
    ELSE [result |-> "Err", back |-> Some(grid), p |-> p]

\* DrawProcess::extend
extend(p, grid) ==
    IF p.start_x = grid.start_x /\ p.end_x = grid.end_x /\ p.end_y = grid.start_y
    THEN [result |-> "Ok", back |-> None, p |-> [p EXCEPT !.end_y = grid.end_y]]
    ELSE IF p.start_x = grid.start_x /\ p.end_x = grid.end_x /\ p.start_y = grid.end_y
    THEN [result |-> "Ok", back |-> None, p |-> [p EXCEPT !.start_y = grid.start_y]]
    ELSE [result |-> "Err", back |-> Some(grid), p |-> p]

\* shove as it would be if it moved the divider by one row at most.
shove_by_one(p, direction) ==
    IF direction = "Minus"
    THEN [ovf |-> FALSE,
          p |-> [p EXCEPT !.divider = IF @ > Len(p.minus) THEN @ - 1 ELSE @]]
    ELSE LET h == USub(p.end_y, p.start_y)
         IN [ovf |-> SubOvf(p.end_y, p.start_y) \/ SubOvf(h, Len(p.plus)),
             p |-> [p EXCEPT !.divider = IF @ < USub(h, Len(p.plus)) THEN @ + 1 ELSE @]]

\* shove as it would be if it made room by dropping the newest line of the
\* side it shoves towards.
shove_dropping(p, direction) ==
    IF direction = "Minus"
    THEN [ovf |-> FALSE,
          p |-> [p EXCEPT !.divider = Min(@, Len(p.minus)),
                          !.minus = SubSeq(@, 1, Len(@) - 1)]]
    ELSE LET h == USub(p.end_y, p.start_y)
         IN [ovf |-> SubOvf(p.end_y, p.start_y) \/ SubOvf(h, Len(p.plus)),
             p |-> [p EXCEPT !.divider = Max(@, USub(h, Len(p.plus))),
                             !.plus = SubSeq(@, 1, Len(@) - 1)]]

\* DrawProcess::shove
shove(p, direction) ==
    IF direction = "Minus"
    THEN [ovf |-> FALSE, p |-> [p EXCEPT !.divider = Min(@, Len(p.minus))]]
    ELSE LET h == USub(p.end_y, p.start_y)
         IN [ovf |-> SubOvf(p.end_y, p.start_y) \/ SubOvf(h, Len(p.plus)),
             p |-> [p EXCEPT !.divider = Max(@, USub(h, Len(p.plus)))]]

\* One row of the rendering: position, then content.
Row(x, y, s) == <<Action_MoveTo(x, y), Action_Print(s)>>

RECURSIVE Flatten(_)
Flatten(ss) == IF ss = <<>> THEN <<>> ELSE Head(ss) \o Flatten(Tail(ss))

\* The minus loop as it would be without .rev().
minus_rows_unreversed(p, sx, sy) ==
    [i \in 1..Len(p.minus) |-> Row(sx, UAdd(sy, i - 1), p.minus[i])]

\* grab_actions, "Adds negative lines": self.minus.iter().rev().enumerate()
minus_rows(p, sx, sy) ==
    [i \in 1..Len(p.minus) |-> Row(sx, UAdd(sy, i - 1), Reverse(p.minus)[i])]

\* The plus loop as it would be if it iterated in reverse like the minus loop.
plus_rows_reversed(p, sx, divider) ==
    [i \in 1..Len(p.plus) |-> Row(sx, UAdd(divider, i - 1), Reverse(p.plus)[i])]

\* grab_actions, "Adds positive lines": self.plus.iter().enumerate()
plus_rows(p, sx, divider) ==
    [i \in 1..Len(p.plus) |-> Row(sx, UAdd(divider, i - 1), p.plus[i])]

\* grab_actions, "Adds blank lines": for i in from..to
blank_rows(p, sx, from, to) ==
    [i \in 1..Len(Range(from, to)) |-> Row(sx, Range(from, to)[i], p.example_str)]

\* grab_actions as it would be if it took the lines out of the lists
\* (draining them) while turning them into instructions.
grab_actions_draining(p) ==
    LET start_x == p.start_x
        divider == UAdd(p.start_y, p.divider)
        start_y == USub(divider, Len(p.minus))
        e0 == UAdd(divider, Len(p.plus))
    IN [ovf |-> \/ AddOvf(p.start_y, p.divider)
                \/ SubOvf(divider, Len(p.minus))
                \/ AddOvf(divider, Len(p.plus))
                \/ \E i \in 1..Len(p.minus) : AddOvf(start_y, i - 1)
                \/ \E i \in 1..Len(p.plus) : AddOvf(divider, i - 1),
        actions |-> Flatten(blank_rows(p, start_x, p.start_y, start_y)
                            \o minus_rows(p, start_x, start_y)
                            \o plus_rows(p, start_x, divider)
                            \o blank_rows(p, start_x, e0, p.end_y)),
        p |-> [p EXCEPT !.minus = <<>>, !.plus = <<>>]]

\* DrawProcess::grab_actions.  It takes the receiver mutably; `p` is the
\* receiver as the call leaves it.
grab_actions(p) ==
    LET start_x == p.start_x
        divider == UAdd(p.start_y, p.divider)
        start_y == USub(divider, Len(p.minus))
        e0 == UAdd(divider, Len(p.plus))
    IN [ovf |-> \/ AddOvf(p.start_y, p.divider)
                \/ SubOvf(divider, Len(p.minus))
                \/ AddOvf(divider, Len(p.plus))
                \/ \E i \in 1..Len(p.minus) : AddOvf(start_y, i - 1)
                \/ \E i \in 1..Len(p.plus) : AddOvf(divider, i - 1),
        actions |-> Flatten(blank_rows(p, start_x, p.start_y, start_y)
                            \o minus_rows(p, start_x, start_y)
                            \o plus_rows(p, start_x, divider)
                            \o blank_rows(p, start_x, e0, p.end_y)),
        p |-> p]

----------------------------------------------------------------------------
(* The calls a client makes *)

Sections == {"Minus", "Plus"}

\* The line list of a section.
Side(p, section) == IF section = "Minus" THEN p.minus ELSE p.plus

\* Input texts are named after the section and the slot their first line is
\* offered for (odd names for Minus, even names for Plus), so that the lines
\* of a process can be told apart.
TextId(p, section, slot) ==
    2 * (Len(Side(p, section)) + slot) - (IF section = "Minus" THEN 1 ELSE 0)

\* Inputs of add_to_section: a text, and the number of lines the trimming
\* policy makes of it.
Texts(p, section) == {[id |-> TextId(p, section, 1), k |-> k] : k \in 0..MaxK}

RECURSIVE Sum(_, _, _)
Sum(ks, from, to) == IF from > to THEN 0 ELSE ks[from] + Sum(ks, from + 1, to)

\* An input of add_to_section_lines: the i-th text makes ks[i] lines.  The
\* Minus side takes the items last to first, the Plus side first to last.
Batch(p, section, ks) ==
    [i \in 1..Len(ks) |->
        [id |-> TextId(p, section,
                       1 + (IF section = "Minus" THEN Sum(ks, i + 1, Len(ks))
                                                 ELSE Sum(ks, 1, i - 1))),
         k |-> ks[i]]]

\* Inputs of add_to_section_lines: up to MaxBatch texts of one line each.
Batches(p, section) == {Batch(p, section, [i \in 1..n |-> 1]) : n \in 1..MaxBatch}

\* Option<usize> arguments of split_free_space.
Options == {None} \cup {Some(v) : v \in 1..MaxOpt}

\* Divider strategies for a viewport: an explicit offset lies within the height.
Strategies(g) == {Beginning, End, Halfway} \cup {Pos(v) : v \in 0..(g.end_y - g.start_y)}

\* Viewports handed to the constructor (start_y <= end_y): columns 1..2, a
\* top row 0 or 1.
Grids == {Grid(1, sy, 3, ey) : sy \in 0..1, ey \in 0..MaxHeight} \ {Grid(1, 1, 3, 0)}

\* Viewports handed to extend: next to the process, over it, or of another width.
ExtendGrids(p) ==
    {Grid(p.start_x, sy, p.end_x, sy + 1) : sy \in {p.end_y, p.start_y - 1, p.start_y} \cap Nat}
    \cup {Grid(p.start_x + 1, p.end_y, p.end_x, p.end_y + 1)}

\* The states the model keeps: coordinates and list lengths within the bounds.
InRange(p) ==
    /\ p.start_y <= MaxCoord
    /\ p.end_y <= MaxCoord
    /\ p.divider <= MaxCoord
    /\ Len(p.minus) <= MaxLines
    /\ Len(p.plus) <= MaxLines

NoCall ==
    [op |-> "new", section |-> "", text |-> <<>>, strategy |-> Beginning,
     min_left |-> None, max_taken |-> None, arg |-> None, fail_at |-> 0,
     pre |-> None, result |-> "", results |-> <<>>, extras |-> <<>>,
     grid |-> None, out |-> <<>>, split |-> None]

\* A call that panicked (overflow in a build with overflow checks).
Panicked(op) == [NoCall EXCEPT !.op = op, !.result = "Panic"]

\* The build profiles a call can run under: an overflow shows the profile.
Builds(ovf) ==
    IF ovf /\ overflow_checks = "unknown" THEN {"on", "off"} ELSE {overflow_checks}

Init ==
    /\ overflow_checks = "unknown"
    /\ panicked = FALSE
    /\ \E g \in Grids : \E s \in Strategies(g) :
          /\ process = new(g, s).p
          /\ last = [NoCall EXCEPT !.strategy = s, !.arg = Some(g)]

AddToSection ==
    /\ ~panicked
    /\ \E section \in Sections : \E text \in Texts(process, section) :
          LET r == add_to_section(process, text, section)
          IN \E build \in Builds(r.ovf) :
             LET panic == build = "on" /\ r.ovf
             IN
             /\ InRange(r.p)
             /\ overflow_checks' = build
             /\ panicked' = panic
             /\ process' = (IF panic THEN process ELSE r.p)
             /\ last' = IF panic THEN Panicked("add_to_section")
                        ELSE [NoCall EXCEPT !.op = "add_to_section", !.section = section,
                                !.text = <<text>>, !.pre = Some(process),
                                !.result = r.result, !.extras = <<r.extras>>]

AddToSectionLines ==
    /\ ~panicked
    /\ \E section \in Sections : \E text \in Batches(process, section) :
          LET r == add_to_section_lines(process, text, section)
          IN \E build \in Builds(r.ovf) :
             LET panic == build = "on" /\ r.ovf
             IN
             /\ InRange(r.p)
             /\ overflow_checks' = build
             /\ panicked' = panic
             /\ process' = (IF panic THEN process ELSE r.p)
             /\ last' = IF panic THEN Panicked("add_to_section_lines")
                        ELSE [NoCall EXCEPT !.op = "add_to_section_lines",
                                !.section = section, !.text = text,
                                !.pre = Some(process),
                                !.results = r.res, !.extras = r.extras]

Clear ==
    /\ ~panicked
    /\ \E s \in Strategies(GridOf(process)) :
          LET r == clear(process, s)
          IN \E build \in Builds(r.ovf) :
             LET panic == build = "on" /\ r.ovf
             IN
             /\ InRange(r.p)
             /\ overflow_checks' = build
             /\ panicked' = panic
             /\ process' = (IF panic THEN process ELSE r.p)
             /\ last' = IF panic THEN Panicked("clear")
                        ELSE [NoCall EXCEPT !.op = "clear", !.strategy = s,
                                !.pre = Some(process)]

SplitFreeSpace ==
    /\ ~panicked
    /\ \E a \in Sections, min_left \in Options, max_taken \in Options :
          LET r == split_free_space(process, a, min_left, max_taken)
          IN \E build \in Builds(r.ovf) :
             LET panic == build = "on" /\ r.ovf
             IN
             /\ InRange(r.p)
             /\ overflow_checks' = build
             /\ panicked' = panic
             /\ process' = (IF panic THEN process ELSE r.p)
             /\ last' = IF panic THEN Panicked("split_free_space")
                        ELSE [NoCall EXCEPT !.op = "split_free_space", !.section = a,
                                !.min_left = min_left, !.max_taken = max_taken,
                                !.pre = Some(process), !.grid = r.grid]

\* The viewport the last call handed out, if it was a split that returned one.
Returned == IF last.op = "split_free_space" THEN last.grid ELSE None

Extend ==
    /\ ~panicked
    /\ \E grid \in ExtendGrids(process) \cup {Returned[i] : i \in 1..Len(Returned)} :
          LET r == extend(process, grid)
          IN /\ InRange(r.p)
             /\ process' = r.p
             /\ last' = [NoCall EXCEPT !.op = "extend", !.arg = Some(grid),
                            !.pre = Some(process), !.result = r.result,
                            !.grid = r.back,
                            !.split = IF Returned = Some(grid)
                                      THEN Some([section |-> last.section,
                                                 pre |-> last.pre[1]])
                                      ELSE None]
    /\ UNCHANGED <<overflow_checks, panicked>>

Shove ==
    /\ ~panicked
    /\ \E direction \in Sections :
          LET r == shove(process, direction)
          IN \E build \in Builds(r.ovf) :
             LET panic == build = "on" /\ r.ovf
             IN
             /\ InRange(r.p)
             /\ overflow_checks' = build
             /\ panicked' = panic
             /\ process' = (IF panic THEN process ELSE r.p)
             /\ last' = IF panic THEN Panicked("shove")
                        ELSE [NoCall EXCEPT !.op = "shove", !.section = direction,
                                !.pre = Some(process)]

\* The instructions a handler that fails on the fail_at-th one receives
\* (fail_at = 0: the handler never fails).
Delivered(actions, fail_at) ==
    IF fail_at = 0 \/ fail_at > Len(actions) THEN actions
    ELSE SubSeq(actions, 1, fail_at)

\* DrawProcess::print with a fallible handler.
PrintTo ==
    /\ ~panicked
    /\ \E fail_at \in 0..MaxFail :
          LET r == grab_actions(process)
              failed == fail_at # 0 /\ fail_at <= Len(r.actions)
          IN \E build \in Builds(r.ovf) :
             LET panic == build = "on" /\ r.ovf
             IN
             /\ overflow_checks' = build
             /\ panicked' = panic
             /\ last' = IF panic THEN Panicked("print")
                        ELSE [NoCall EXCEPT !.op = "print", !.fail_at = fail_at,
                                !.pre = Some(process),
                                !.result = IF failed THEN "Err" ELSE "Ok",
                                !.out = Delivered(r.actions, fail_at)]
             /\ process' = (IF panic THEN process ELSE r.p)

\* DrawProcess::print_safe with an infallible handler.
PrintSafe ==
    /\ ~panicked
    /\ LET r == grab_actions(process)
       IN \E build \in Builds(r.ovf) :
          LET panic == build = "on" /\ r.ovf
          IN
          /\ overflow_checks' = build
          /\ panicked' = panic
          /\ last' = IF panic THEN Panicked("print_safe")
                     ELSE [NoCall EXCEPT !.op = "print_safe", !.pre = Some(process),
                             !.out = r.actions]
          /\ process' = (IF panic THEN process ELSE r.p)

Next ==
    \/ AddToSection
    \/ AddToSectionLines
    \/ Clear
    \/ SplitFreeSpace
    \/ Extend
    \/ Shove
    \/ PrintTo
    \/ PrintSafe

Spec == Init /\ [][Next]_vars

----------------------------------------------------------------------------
(* Properties *)

\* Height and free rows as the specification counts them (in the integers).
Height(p) == p.end_y - p.start_y
FreeRows(p, section) ==
    IF section = "Minus" THEN p.divider - Len(p.minus)
    ELSE Height(p) - p.divider - Len(p.plus)

\* The receiver before the last call.
Pre == last.pre[1]

\* The contents the rendering prints right after moving to row y.
RenderedAt(p, y) ==
    LET a == grab_actions(p).actions
    IN {a[j + 1] : j \in {j \in 1..(Len(a) - 1) : a[j] = Action_MoveTo(p.start_x, y)}}

\* The rows of a viewport.
Rows(g) == {y \in 0..(2 * MaxCoord) : g.start_y <= y /\ y < g.end_y}

\* C1 (capacity invariant): in every reachable state len(minus) <= divider
\* and len(plus) <= height - divider.
CapacityInvariant ==
    /\ Len(process.minus) <= process.divider
    /\ Len(process.plus) <= Height(process) - process.divider

\* C2 (row coverage): in every reachable state the rendering is exactly
\* height position+content pairs, at rows start_y, start_y + 1, ..., end_y - 1
\* of column start_x in that order.
RowCoverage ==
    LET a == grab_actions(process).actions
    IN /\ Len(a) = 2 * Height(process)
       /\ \A r \in 1..Height(process) :
             /\ a[2 * r - 1] = Action_MoveTo(process.start_x, process.start_y + r - 1)
             /\ a[2 * r][1] = "Print"

\* C3 (row hand-off): a viewport returned by split_free_space has the
\* process's x-bounds, is as tall as the process shrank, lies against the new
\* bounds on the edge given up, and with the new rows makes up the old rows.
RowHandOff ==
    (last.op = "split_free_space" /\ last.grid # None) =>
        LET g == last.grid[1]
        IN /\ g.start_x = process.start_x /\ g.end_x = process.end_x
           /\ g.end_y - g.start_y = Height(Pre) - Height(process)
           /\ last.section = "Minus" => g.end_y = process.start_y
           /\ last.section = "Plus" => g.start_y = process.end_y
           /\ Rows(g) \cap Rows(GridOf(process)) = {}
           /\ Rows(g) \cup Rows(GridOf(process)) = Rows(GridOf(Pre))

\* The last call was extend, given the viewport that a split_free_space on
\* `section` had returned in the call just before.
ExtendedAfterSplit(section) ==
    /\ last.op = "extend"
    /\ last.split # None
    /\ last.split[1].section = section

\* The process is as it was before that split: bounds, divider and lines.
RoundTrip ==
    /\ last.result = "Ok"
    /\ process = last.split[1].pre

\* C4 (split/extend round trip, Plus): extend with the viewport that
\* split_free_space(Plus, ..) just returned succeeds and restores the bounds,
\* with divider and both line lists as before the split.
SplitExtendRoundTripPlus == ExtendedAfterSplit("Plus") => RoundTrip

\* C4, its case: a process holding lines got back the rows it gave up below.
SplitExtendRoundTripPlusWitness ==
    /\ ExtendedAfterSplit("Plus")
    /\ last.result = "Ok"
    /\ process.plus # <<>>
    /\ process.end_y > Pre.end_y

\* C5 (split/extend round trip, Minus): extend with the viewport that
\* split_free_space(Minus, ..) just returned succeeds and restores the bounds.
SplitExtendRoundTripMinus ==
    ExtendedAfterSplit("Minus") =>
        /\ last.result = "Ok"
        /\ GridOf(process) = GridOf(last.split[1].pre)

\* The last call was a single add_to_section on `section` that returned `result`.
Added(section, result) ==
    /\ last.op = "add_to_section"
    /\ last.section = section
    /\ last.result = result

\* C6 as first stated (insertion ordering, Minus): the minus line inserted
\* last is rendered on the row just above the divider, start_y + divider - 1.
MinusNewestNearestDivider ==
    (Added("Minus", "Ok") /\ last.text[1].k = 1) =>
        Action_Print(Trim(last.text[1], Pre)[1])
            \in RenderedAt(process, process.start_y + process.divider - 1)

\* C6 (insertion ordering, Minus), amended: a successful add_to_section on
\* Minus appends its lines to the minus list, and the j-th line of the list
\* (from 1) is rendered on row start_y + divider - j: the line inserted first
\* lies just above the divider, each later one a row further up.
MinusInsertionOrder ==
    /\ \A j \in 1..Len(process.minus) :
          Action_Print(process.minus[j])
              \in RenderedAt(process, process.start_y + process.divider - j)
    /\ Added("Minus", "Ok") => process.minus = Pre.minus \o Trim(last.text[1], Pre)

\* C6, its case: B was inserted after A on Minus and lies on the row above A.
MinusInsertionOrderWitness ==
    /\ Added("Minus", "Ok")
    /\ last.text[1].k = 1
    /\ Len(Pre.minus) = 1
    /\ Len(process.minus) = 2
    /\ process.minus[1] # process.minus[2]
    /\ Action_Print(process.minus[2])
           \in RenderedAt(process, process.start_y + process.divider - 2)

\* C7 (insertion ordering, Plus): a successful add_to_section on Plus appends
\* its lines to the plus list, and the i-th line of the list (from 0) is
\* rendered on row start_y + divider + i.
PlusInsertionOrder ==
    /\ \A i \in 1..Len(process.plus) :
          Action_Print(process.plus[i])
              \in RenderedAt(process, process.start_y + process.divider + (i - 1))
    /\ Added("Plus", "Ok") => process.plus = Pre.plus \o Trim(last.text[1], Pre)

\* C7, its case: B was inserted after A on Plus and lies on the row below A.
PlusInsertionOrderWitness ==
    /\ Added("Plus", "Ok")
    /\ last.text[1].k = 1
    /\ Len(Pre.plus) = 1
    /\ Len(process.plus) = 2
    /\ process.plus[1] # process.plus[2]
    /\ Action_Print(process.plus[2])
           \in RenderedAt(process, process.start_y + process.divider + 1)

\* The last call was add_to_section_lines on `section` and it returned.
AddedLines(section) ==
    /\ last.op = "add_to_section_lines"
    /\ last.section = section
    /\ last.result # "Panic"

\* Every item of the last batch makes exactly one line.
OneLineEach == \A i \in 1..Len(last.text) : last.text[i].k = 1

\* The batch went to an empty side with room for all of it.
BatchFits(section) ==
    /\ AddedLines(section)
    /\ OneLineEach
    /\ Side(Pre, section) = <<>>
    /\ FreeRows(Pre, section) >= Len(last.text)

\* C8 (batch reading order): a batch of n one-line items on an empty side with
\* n free rows is rendered L1, ..., Ln top to bottom on consecutive rows, for
\* Plus from the divider row down, for Minus ending just above the divider.
BatchReadingOrder ==
    \A section \in Sections :
        BatchFits(section) =>
            \A i \in 1..Len(last.text) :
                Action_Print(Trim(last.text[i], Pre)[1])
                    \in RenderedAt(process,
                           IF section = "Plus"
                           THEN process.start_y + process.divider + (i - 1)
                           ELSE process.start_y + process.divider - Len(last.text) + (i - 1))

\* C8, its case: two different lines went to the Minus side in one batch.
BatchReadingOrderWitness ==
    /\ BatchFits("Minus")
    /\ Len(last.text) = 2
    /\ last.text[1].id # last.text[2].id
    /\ Len(process.minus) = 2

\* The lines of a list, as a set.
Lines(list) == {list[i] : i \in 1..Len(list)}

\* C9 (batch results aligned): add_to_section_lines returns one result per
\* item, result[i] telling whether item i was placed; with one line per item
\* and c < n free rows, Plus accepts exactly the first c items and Minus
\* exactly the last c.
BatchResultsAligned ==
    \A section \in Sections :
        AddedLines(section) =>
            LET n == Len(last.text)
                c == FreeRows(Pre, section)
            IN /\ Len(last.results) = n
               /\ \A i \in 1..n :
                     /\ last.results[i] \in {"Ok", "NoSpace"}
                     /\ last.results[i] = "Ok" <=>
                            Lines(Trim(last.text[i], Pre)) \subseteq Lines(Side(process, section))
               /\ (OneLineEach /\ c < n) =>
                     \A i \in 1..n :
                         last.results[i] = "Ok" <=>
                             (IF section = "Plus" THEN i <= c ELSE i > n - c)

\* C10 (NoSpace exactly when due): add_to_section returns Ok if and only if
\* the k lines of the text are at most the free rows of the side, and NoSpace
\* otherwise.
NoSpaceExactly ==
    \A section \in Sections :
        (last.op = "add_to_section" /\ last.section = section /\ last.result # "Panic") =>
            /\ last.result \in {"Ok", "NoSpace"}
            /\ last.result = "Ok" <=> last.text[1].k <= FreeRows(Pre, section)

\* The last call returned (it did not panic).
Returns(op) == last.op = op /\ last.result # "Panic"

\* C11 (extend's acceptance): extend accepts a viewport if and only if its
\* x-bounds equal the process's and it starts at the process's end_y (then
\* end_y becomes the viewport's end_y) or ends at the process's start_y (then
\* start_y becomes the viewport's start_y), all other fields unchanged; in
\* every other case it hands the same viewport back and changes nothing.
ExtendAcceptance ==
    last.op = "extend" =>
        LET g == last.arg[1]
            same_x == g.start_x = Pre.start_x /\ g.end_x = Pre.end_x
            below == same_x /\ g.start_y = Pre.end_y
            above == same_x /\ ~below /\ g.end_y = Pre.start_y
        IN /\ last.result = "Ok" <=> (below \/ above)
           /\ below => process = [Pre EXCEPT !.end_y = g.end_y] /\ last.grid = None
           /\ above => process = [Pre EXCEPT !.start_y = g.start_y] /\ last.grid = None
           /\ ~(below \/ above) =>
                 /\ last.result = "Err"
                 /\ last.grid = Some(g)
                 /\ process = Pre

\* C11, its case: a viewport lying right below the process, but of another
\* width, was handed back.
ExtendAcceptanceWitness ==
    /\ last.op = "extend"
    /\ last.result = "Err"
    /\ last.arg[1].start_y = Pre.end_y
    /\ last.arg[1].start_x # Pre.start_x
    /\ last.grid = last.arg
    /\ Pre.plus # <<>>

\* C12 (shove non-destructiveness): shove(Minus) and shove(Plus) change only
\* the divider; both line lists and the four bounds are as before.
ShoveOnlyDivider ==
    Returns("shove") => process = [Pre EXCEPT !.divider = process.divider]

\* C12, its case: a shove moved the divider of a process that holds lines on
\* both sides.
ShoveOnlyDividerWitness ==
    /\ Returns("shove")
    /\ process.divider # Pre.divider
    /\ Pre.minus # <<>>
    /\ Pre.plus # <<>>
    /\ process.minus = Pre.minus
    /\ process.plus = Pre.plus

\* A one-line text for `section`, as the next insertion would offer it.
OneLine(p, section) == [id |-> TextId(p, section, 1), k |-> 1]

\* C13 (clear resets content, preserves bounds): after clear both line lists
\* are empty, the four bounds are those before the call, and a side that the
\* new divider gives room takes a line again.
ClearResets ==
    Returns("clear") =>
        /\ process.minus = <<>>
        /\ process.plus = <<>>
        /\ GridOf(process) = GridOf(Pre)
        /\ \A section \in Sections :
              FreeRows(process, section) > 0 =>
                  LET r == add_to_section(process, OneLine(process, section), section)
                  IN r.result = "Ok" /\ ~r.ovf

\* C13, its case: a process whose Plus side was full of lines was cleared and
\* has room on that side again.
ClearResetsWitness ==
    /\ Returns("clear")
    /\ Pre.plus # <<>>
    /\ FreeRows(Pre, "Plus") = 0
    /\ add_to_section(Pre, OneLine(Pre, "Plus"), "Plus").result = "NoSpace"
    /\ FreeRows(process, "Plus") > 0

\* The divider a policy places in a viewport of height h.
Placed(strategy, h) ==
    CASE strategy.kind = "Beginning" -> 0
      [] strategy.kind = "End" -> h
      [] strategy.kind = "Halfway" -> h \div 2
      [] OTHER -> strategy.v

\* C14 (divider placement): construction and clear set the divider to 0 for
\* Beginning, the height for End, half the height rounded down for Halfway
\* and v for an explicit offset v, the height being end_y - start_y at the
\* time of the call.
DividerPlacement ==
    (Returns("new") \/ Returns("clear")) =>
        process.divider = Placed(last.strategy, Height(process))

\* C14, its case: a clear with End in a viewport whose top row lies below
\* every top row handed to the constructor (split_free_space raised it), so
\* that the divider follows the height of the moment, not the first one.
DividerPlacementWitness ==
    /\ Returns("clear")
    /\ last.strategy = End
    /\ process.start_y > 1
    /\ process.divider = Height(process)
    /\ Pre.divider # process.divider

\* C15 (fail-fast rendering): print hands the instructions to the driver one
\* at a time in generated order; when the driver fails on the j-th, print
\* returns the failure and nothing after the j-th is delivered; when it never
\* fails, all 2 x height instructions are delivered and print returns success.
FailFastRendering ==
    Returns("print") =>
        LET a == grab_actions(Pre).actions
            j == last.fail_at
        IN IF j # 0 /\ j <= Len(a)
           THEN /\ last.result = "Err"
                /\ last.out = SubSeq(a, 1, j)
           ELSE /\ last.result = "Ok"
                /\ last.out = a
                /\ Len(last.out) = 2 * Height(Pre)

\* C16 (divider within the height): in every reachable state
\* 0 <= divider <= end_y - start_y.
DividerWithinHeight ==
    /\ 0 <= process.divider
    /\ process.divider <= Height(process)

\* C17 (no rollback on overflow): when the policy makes k lines and the side
\* has c < k free rows, add_to_section appends exactly the first c lines in
\* order, hands the other k - c lines in order to the overflow handler,
\* returns NoSpace, and leaves the side with no free row.
NoRollbackOnOverflow ==
    \A section \in Sections :
        (Returns("add_to_section") /\ last.section = section) =>
            LET lines == Trim(last.text[1], Pre)
                k == Len(lines)
                c == FreeRows(Pre, section)
            IN c < k =>
                  /\ last.result = "NoSpace"
                  /\ 0 <= c
                  /\ Side(process, section) = Side(Pre, section) \o SubSeq(lines, 1, c)
                  /\ last.extras = <<SubSeq(lines, c + 1, k)>>
                  /\ FreeRows(process, section) = 0

\* C18 (amount reclaimed): with region = divider for Minus and height - divider
\* for Plus, split_free_space takes
\* t = min(max_taken, max(0, region - max(len(side), min_left))) rows: the
\* height falls by exactly t on the chosen edge, a returned viewport is no
\* taller than max_taken, the process keeps at least min_left rows when a
\* viewport is returned, and with t = 0 nothing is returned or changed.
AmountReclaimed ==
    \A section \in Sections :
        (Returns("split_free_space") /\ last.section = section) =>
            LET region == IF section = "Minus" THEN Pre.divider
                          ELSE Height(Pre) - Pre.divider
                kept == IF last.min_left # None
                        THEN Max(Len(Side(Pre, section)), last.min_left[1])
                        ELSE Len(Side(Pre, section))
                free == Max(0, region - kept)
                t == IF last.max_taken # None THEN Min(last.max_taken[1], free) ELSE free
            IN /\ section = "Minus" => process = [Pre EXCEPT !.start_y = Pre.start_y + t]
               /\ section = "Plus" => process = [Pre EXCEPT !.end_y = Pre.end_y - t]
               /\ Height(process) = Height(Pre) - t
               /\ (last.grid # None /\ last.max_taken # None) =>
                     last.grid[1].end_y - last.grid[1].start_y <= last.max_taken[1]
               /\ (last.grid # None /\ last.min_left # None) =>
                     Height(process) >= last.min_left[1]
               /\ t = 0 => last.grid = None /\ process = Pre

\* The capacity invariant, of a process value.
HasCapacity(p) ==
    /\ Len(p.minus) <= p.divider
    /\ Len(p.plus) <= Height(p) - p.divider

\* The side other than `section`.
Other(section) == IF section = "Minus" THEN "Plus" ELSE "Minus"

\* C19 (shove transfers all unused rows): from a state with the capacity
\* invariant, shove(Minus) sets the divider to min(divider, len(minus)) and
\* shove(Plus) to max(divider, height - len(plus)); the side shoved towards
\* then has no free row (a one-line insertion there returns NoSpace), the
\* other side has height - len(minus) - len(plus) free rows, and a second
\* shove in the same direction changes nothing.
ShoveTransfers ==
    \A section \in Sections :
        (Returns("shove") /\ last.section = section /\ HasCapacity(Pre)) =>
            /\ process.divider = IF section = "Minus"
                                 THEN Min(Pre.divider, Len(Pre.minus))
                                 ELSE Max(Pre.divider, Height(Pre) - Len(Pre.plus))
            /\ FreeRows(process, section) = 0
            /\ add_to_section(process, OneLine(process, section), section).result = "NoSpace"
            /\ add_to_section(process, OneLine(process, section), section).p = process
            /\ FreeRows(process, Other(section))
                   = Height(Pre) - Len(Pre.minus) - Len(Pre.plus)
            /\ shove(process, section).p = process
            /\ ~shove(process, section).ovf

\* C19, its case: a shove towards a side holding a line handed that side's
\* unused rows to the other side.
ShoveTransfersWitness ==
    \E section \in Sections :
        /\ Returns("shove")
        /\ last.section = section
        /\ HasCapacity(Pre)
        /\ Side(Pre, section) # <<>>
        /\ FreeRows(Pre, section) > 0
        /\ FreeRows(process, Other(section)) > FreeRows(Pre, Other(section))

\* C20 (space operations do not move content): a split_free_space that
\* returned a viewport and an extend that accepted one leave every placed
\* minus and plus line on the absolute row it was rendered on before.
ContentStaysPut ==
    (\/ Returns("split_free_space") /\ last.grid # None
     \/ last.op = "extend" /\ last.result = "Ok") =>
        \A l \in Lines(Pre.minus) \cup Lines(Pre.plus) :
            \A y \in 0..(2 * MaxCoord) :
                Action_Print(l) \in RenderedAt(Pre, y)
                    <=> Action_Print(l) \in RenderedAt(process, y)

\* The last call was an insertion (single or batch) that returned.
Inserted(section) ==
    /\ last.op \in {"add_to_section", "add_to_section_lines"}
    /\ last.section = section
    /\ last.result # "Panic"

\* list `a` is the beginning of list `b`
IsPrefix(a, b) == Len(a) <= Len(b) /\ a = SubSeq(b, 1, Len(a))

\* C21 (insertion touches only the target side): add_to_section and
\* add_to_section_lines, returning Ok or NoSpace, leave the other side's list,
\* the divider and the four bounds as they were, and only append to the
\* target side's list.
InsertionTouchesTarget ==
    \A section \in Sections :
        Inserted(section) =>
            /\ Side(process, Other(section)) = Side(Pre, Other(section))
            /\ process.divider = Pre.divider
            /\ GridOf(process) = GridOf(Pre)
            /\ process.example_str = Pre.example_str
            /\ IsPrefix(Side(Pre, section), Side(process, section))

\* C21, its case: from a state with the capacity invariant, an insertion ran
\* out of room after placing a line, the other side holding a line.
InsertionTouchesTargetWitness ==
    \E section \in Sections :
        /\ Inserted(section)
        /\ last.op = "add_to_section"
        /\ last.result = "NoSpace"
        /\ HasCapacity(Pre)
        /\ Side(Pre, Other(section)) # <<>>
        /\ Len(Side(process, section)) > Len(Side(Pre, section))

\* C22 (rendering is read-only and repeatable): print and print_safe leave
\* bounds, divider and both lists as they were, also when print stops on a
\* driver failure, so that the next render generates the same instructions,
\* of which the delivered ones are the beginning (all of them when the driver
\* did not fail).
RenderReadOnly ==
    (Returns("print") \/ Returns("print_safe")) =>
        LET again == grab_actions(process).actions
        IN /\ process = Pre
           /\ again = grab_actions(Pre).actions
           /\ IsPrefix(last.out, again)
           /\ (last.op = "print_safe" \/ last.result = "Ok") => last.out = again

\* C22, its case: a print of a process with lines on both sides stopped on
\* the driver's failure at the first instruction.
RenderReadOnlyWitness ==
    /\ Returns("print")
    /\ last.result = "Err"
    /\ Len(last.out) = 1
    /\ process.minus # <<>>
    /\ process.plus # <<>>
    /\ Len(grab_actions(process).actions) > 1

====
